---- MODULE Spec2Model ----
(***************************************************************************)
(* A model of src/src/App.js, the Medical Scribe component: the recording  *)
(* session driven by the speech recognizer's callbacks, note generation    *)
(* against the completion service, and the patient / preference / settings *)
(* documents kept in localStorage.                                         *)
(*                                                                         *)
(* Strings the program computes with (transcript, notes, form fields, the  *)
(* stored JSON texts) are sequences of one-character strings, so that      *)
(* concatenation, trim() and JSON quoting are computed, not assumed.       *)
(* Status messages are display constants and are kept as plain strings.    *)
(***************************************************************************)
EXTENDS Integers, Sequences, FiniteSets, TLC

\* ------------------------------------------------------------------ bounds
\* How many times startRecording may pass the credential check in one run.
MaxStarts == 3
\* How many recognizer events are delivered between two clears.
MaxEvents == 2
\* How many requests are posted to the completion service in one run.
MaxPosts == 2
\* How many patients the list holds, how many visits a patient holds, and the
\* last reading of the clock.
MaxPatients == 2
MaxVisits == 2
MaxClock == 2
\* How many writes to the store fail in one run of the page.
MaxWarnings == 2

\* ------------------------------------------------------------- characters
Space == " "

\* String.prototype.trim(): drop leading and trailing white space.
RECURSIVE TrimLeft(_)
TrimLeft(s) ==
    IF s # <<>> /\ Head(s) = Space THEN TrimLeft(Tail(s)) ELSE s

RECURSIVE TrimRight(_)
TrimRight(s) ==
    IF s # <<>> /\ s[Len(s)] = Space THEN TrimRight(SubSeq(s, 1, Len(s) - 1)) ELSE s

Trim(s) == TrimRight(TrimLeft(s))

\* ---------------------------------------------------------- status messages
StInitial == "Ready to record - Configure API settings first"
StReady == "Ready to record"
StConfigureSpeech == "Please configure Azure Speech settings first"
StRequestingMic == "Requesting microphone access..."
StMicDenied == "Microphone permission denied"
StSetupFailed == "Setup failed"
StRecording == "Recording... Speak now"
StInvalidSpeechKey == "Invalid Speech key"
StSpeechQuota == "Speech service quota exceeded or region mismatch"
StRecordingFailed == "Recording failed"
StSessionEnded == "Recording session ended"
StRecordingComplete == "Recording complete"
StStoppedWithError == "Recording stopped with error"
StNoTranscript == "No transcript available. Please record first."
StConfigureOpenAI == "Please configure Azure OpenAI settings first"
StGenerating == "AI generating medical notes..."
StNotesGenerated == "Medical notes generated successfully"
StAuthFailed == "OpenAI authentication failed"
StDeploymentNotFound == "OpenAI deployment not found"
StRateLimited == "OpenAI rate limit exceeded"
StGenerateFailed == "Failed to generate notes"
StPatientAdded == "Patient added successfully"
StPatientSelected == "Selected patient"
StSelectAndGenerate == "Please select a patient and generate notes first"
StVisitSaved == "Visit notes saved to patient record"
StSettingsSaved == "API settings saved successfully - Ready to record"

\* The texts a recognizer result may carry, and the reasons of a final result.
Texts == { <<>>, <<"a">>, <<" ">> }
RecognizedSpeech == "RecognizedSpeech"
NoMatch == "NoMatch"
ResultReasons == { RecognizedSpeech, NoMatch }
\* The error codes startContinuousRecognitionAsync's failure callback is
\* classified by: 1006, 1007, anything else.
StartErrors == { "1006", "1007", "other" }
\* The contents the completion service may answer with, and the ways a request
\* fails: error.response.status 401, 404, 429, and anything else (another
\* status, no response at all, a response without choices[0]).
NoteTexts == { <<"n">>, <<"m">> }
HttpFailures == { "401", "404", "429", "other" }

VARIABLES
    \* React state of App (useState)
    isRecording, transcript, medicalNotes, isProcessing, status,
    apiSettings, showSettings,
    patients, selectedPatient, showAddPatient, newPatient,
    aiPreferences, showPreferences,
    \* useRef: 0 is null, n > 0 is the n-th recognizer constructed
    recognizerRef,
    \* The environment: getUserMedia promises not yet settled, and every
    \* SpeechRecognizer constructed so far with the state of its start and stop
    micPending, recognizers,
    \* The completion-service requests in flight, oldest first; history kept
    \* with each: whether the session was cleared since it was posted
    requests,
    \* localStorage: the text stored under each key (empty: no item), and what
    \* Date.now() returns
    storage, now,
    \* History: how many getUserMedia calls were made, the recognizer events
    \* delivered since the transcript was last cleared, and the last step taken
    \* and how many requests were posted to the completion service
    micRequests, eventLog, lastCall, posts,
    \* and, per storage key, the document last written with success, and how
    \* many times console.warn was called since the page was loaded
    lastSaved, warnings,
    \* and the transcript sent in the request whose answer medicalNotes holds
    notesRequest

vars == << isRecording, transcript, medicalNotes, isProcessing, status,
           apiSettings, showSettings, patients, selectedPatient, showAddPatient,
           newPatient, aiPreferences, showPreferences, recognizerRef, micPending,
           recognizers, requests, storage, now, micRequests, eventLog, lastCall,
           posts, lastSaved, warnings, notesRequest >>

\* What the recording session and note generation never write.
storeSide == << patients, selectedPatient, showAddPatient, newPatient,
               aiPreferences, showPreferences, storage, now, lastSaved, warnings >>

recVars == << isRecording, status, recognizerRef, micPending, recognizers,
              micRequests >>

recVarsButStatus == << isRecording, recognizerRef, micPending, recognizers,
                       micRequests >>

\* ------------------------------------------------------------ initial state
StorageKeys ==
    { "medicalScribePatients", "medicalScribePreferences", "medicalScribeApiSettings" }

InitNewPatient == [ name |-> <<>>, dob |-> <<>>, mrn |-> <<>>, conditions |-> <<>> ]

InitAiPreferences ==
    [ noteStyle |-> <<"s", "t", "a", "n", "d", "a", "r", "d">>,
      includeAssessment |-> TRUE,
      includePlan |-> TRUE,
      customInstructions |-> <<>> ]

InitApiSettings ==
    [ speechKey |-> <<>>,
      speechRegion |-> <<"e", "a", "s", "t", "u", "s">>,
      openaiEndpoint |-> <<>>,
      openaiKey |-> <<>>,
      openaiDeployment |-> <<"g", "p", "t">>,
      openaiApiVersion |-> <<"v">> ]

Init ==
    /\ isRecording = FALSE
    /\ transcript = <<>>
    /\ medicalNotes = <<>>
    /\ isProcessing = FALSE
    /\ status = StInitial
    /\ apiSettings = InitApiSettings
    /\ showSettings = FALSE
    /\ recognizerRef = 0
    /\ micPending = 0
    /\ recognizers = <<>>
    /\ micRequests = 0
    /\ eventLog = <<>>
    /\ lastCall = "init"
    /\ requests = <<>>
    /\ posts = 0
    /\ patients = <<>>
    /\ selectedPatient = <<>>
    /\ showAddPatient = FALSE
    /\ newPatient = InitNewPatient
    /\ aiPreferences = InitAiPreferences
    /\ showPreferences = FALSE
    /\ storage = [ k \in StorageKeys |-> <<>> ]
    /\ now = 1
    /\ lastSaved = [ k \in StorageKeys |-> <<>> ]
    /\ warnings = 0
    /\ notesRequest = <<>>

\* ------------------------------------------------------------------- JSON
\* A JSON text is a sequence of tokens: the punctuation, true and false, one
\* token per digit of a number, one token per property name, and one token per
\* character of a string value, which stands between quotes with its quotes
\* and backslashes escaped.
Quote == "\""
Backslash == "\\"
DigitChars == << "0", "1", "2", "3", "4", "5", "6", "7", "8", "9" >>

\* Number to decimal text.
RECURSIVE NumberText(_)
NumberText(n) ==
    IF n < 10 THEN << DigitChars[n + 1] >>
    ELSE NumberText(n \div 10) \o << DigitChars[(n % 10) + 1] >>

RECURSIVE Escaped(_)
Escaped(s) ==
    IF s = <<>> THEN <<>>
    ELSE IF Head(s) = Quote \/ Head(s) = Backslash
    THEN << Backslash, Head(s) >> \o Escaped(Tail(s))
    ELSE << Head(s) >> \o Escaped(Tail(s))

\* JSON.stringify of a string.
StringText(s) == << Quote >> \o Escaped(s) \o << Quote >>

\* JSON.stringify of a boolean.
BoolText(b) == IF b THEN << "true" >> ELSE << "false" >>

Member(key, valueText) == << Quote, key, Quote, ":" >> \o valueText

RECURSIVE CommaJoined(_)
CommaJoined(texts) ==
    IF texts = <<>> THEN <<>>
    ELSE IF Len(texts) = 1 THEN texts[1]
    ELSE texts[1] \o << "," >> \o CommaJoined(Tail(texts))

ObjectText(members) == << "{" >> \o CommaJoined(members) \o << "}" >>

ArrayText(items) == << "[" >> \o CommaJoined(items) \o << "]" >>

\* JSON.stringify of a Visit, its properties in the order saveVisitToPatient
\* writes them.
VisitText(v) ==
    ObjectText(<< Member("id", NumberText(v.id)),
                  Member("date", StringText(v.date)),
                  Member("transcript", StringText(v.transcript)),
                  Member("notes", StringText(v.notes)),
                  Member("timestamp", StringText(v.timestamp)) >>)

\* JSON.stringify of a Patient, its properties in the order addPatient writes
\* them.
PatientText(p) ==
    ObjectText(<< Member("id", NumberText(p.id)),
                  Member("name", StringText(p.name)),
                  Member("dob", StringText(p.dob)),
                  Member("mrn", StringText(p.mrn)),
                  Member("conditions", StringText(p.conditions)),
                  Member("visits", ArrayText([ i \in 1..Len(p.visits) |-> VisitText(p.visits[i]) ])),
                  Member("createdAt", StringText(p.createdAt)) >>)

\* JSON.stringify(updatedPatients)
PatientsText(ps) == ArrayText([ i \in 1..Len(ps) |-> PatientText(ps[i]) ])

\* JSON.stringify(prefs)
PreferencesText(prefs) ==
    ObjectText(<< Member("noteStyle", StringText(prefs.noteStyle)),
                  Member("includeAssessment", BoolText(prefs.includeAssessment)),
                  Member("includePlan", BoolText(prefs.includePlan)),
                  Member("customInstructions", StringText(prefs.customInstructions)) >>)

\* JSON.stringify(settings)
SettingsText(settings) ==
    ObjectText(<< Member("speechKey", StringText(settings.speechKey)),
                  Member("speechRegion", StringText(settings.speechRegion)),
                  Member("openaiEndpoint", StringText(settings.openaiEndpoint)),
                  Member("openaiKey", StringText(settings.openaiKey)),
                  Member("openaiDeployment", StringText(settings.openaiDeployment)),
                  Member("openaiApiVersion", StringText(settings.openaiApiVersion)) >>)

\* JSON.parse, by recursive descent; each parser returns the value and the
\* position after it.
IsDigit(c) == \E d \in 1..10 : DigitChars[d] = c

DigitValue(c) == (CHOOSE d \in 1..10 : DigitChars[d] = c) - 1

\* A reader of string literals that keeps the backslash of an escape.
RECURSIVE ParseString_keepsEscape(_, _, _)
ParseString_keepsEscape(t, p, acc) ==
    IF p > Len(t) THEN [ v |-> acc, p |-> p ]
    ELSE IF t[p] = Quote THEN [ v |-> acc, p |-> p + 1 ]
    ELSE IF t[p] = Backslash /\ p < Len(t)
    THEN ParseString_keepsEscape(t, p + 2, acc \o << t[p], t[p + 1] >>)
    ELSE ParseString_keepsEscape(t, p + 1, Append(acc, t[p]))

RECURSIVE ParseString(_, _, _)
ParseString(t, p, acc) ==
    IF p > Len(t) THEN [ v |-> acc, p |-> p ]
    ELSE IF t[p] = Quote THEN [ v |-> acc, p |-> p + 1 ]
    ELSE IF t[p] = Backslash /\ p < Len(t) THEN ParseString(t, p + 2, Append(acc, t[p + 1]))
    ELSE ParseString(t, p + 1, Append(acc, t[p]))

RECURSIVE ParseNumber(_, _, _)
ParseNumber(t, p, acc) ==
    IF p <= Len(t) /\ IsDigit(t[p])
    THEN ParseNumber(t, p + 1, acc * 10 + DigitValue(t[p]))
    ELSE [ v |-> acc, p |-> p ]

RECURSIVE ParseValue(_, _)
RECURSIVE ParseItems(_, _, _)
RECURSIVE ParseMembers(_, _, _)

ParseValue(t, p) ==
    IF p > Len(t) THEN [ v |-> <<>>, p |-> p ]
    ELSE IF t[p] = Quote THEN ParseString(t, p + 1, <<>>)
    ELSE IF t[p] = "[" THEN
        IF p < Len(t) /\ t[p + 1] = "]" THEN [ v |-> <<>>, p |-> p + 2 ]
        ELSE ParseItems(t, p + 1, <<>>)
    ELSE IF t[p] = "{" THEN ParseMembers(t, p + 1, <<>>)
    ELSE IF t[p] = "true" THEN [ v |-> TRUE, p |-> p + 1 ]
    ELSE IF t[p] = "false" THEN [ v |-> FALSE, p |-> p + 1 ]
    ELSE ParseNumber(t, p, 0)

ParseItems(t, p, acc) ==
    LET r == ParseValue(t, p)
    IN  IF r.p <= Len(t) /\ t[r.p] = ","
        THEN ParseItems(t, r.p + 1, Append(acc, r.v))
        ELSE [ v |-> Append(acc, r.v), p |-> r.p + 1 ]

ParseMembers(t, p, acc) ==
    IF p + 4 > Len(t) THEN [ v |-> acc, p |-> Len(t) + 1 ]
    ELSE LET key == t[p + 1]
             r == ParseValue(t, p + 4)
             obj == [ k \in (DOMAIN acc) \cup { key } |-> IF k = key THEN r.v ELSE acc[k] ]
         IN  IF r.p <= Len(t) /\ t[r.p] = ","
             THEN ParseMembers(t, r.p + 1, obj)
             ELSE [ v |-> obj, p |-> r.p + 1 ]

JSONparse(t) == ParseValue(t, 1).v

\* Date.prototype.toISOString and toLocaleString of the clock's reading.
ToISOString(t) == << "T" >> \o NumberText(t)

ToLocaleString(t) == << "L" >> \o NumberText(t)

\* ------------------------------------------------------ recording session
\* Everything note generation owns, which the recording session leaves alone.
genSide == << medicalNotes, isProcessing, requests, posts, notesRequest >>

NewRecognizer == [ run |-> "starting", stop |-> "none" ]

\* A recognizer whose start succeeded and that was neither asked to stop nor
\* ended by the engine: the only ones that deliver events.
Active(r) ==
    /\ r \in 1..Len(recognizers)
    /\ recognizers[r].run = "running"
    /\ recognizers[r].stop = "none"

\* A check of the speech credentials that passes whatever they are.
SpeechUnconfigured_never(settings) == FALSE

\* !speechKey || !speechRegion
SpeechUnconfigured(settings) ==
    settings.speechKey = <<>> \/ settings.speechRegion = <<>>

\* startRecording, up to its await of getUserMedia.
startRecording ==
    IF SpeechUnconfigured(apiSettings)
    THEN /\ status' = StConfigureSpeech
         /\ showSettings' = TRUE
         /\ lastCall' = "startRecording:unconfigured"
         /\ UNCHANGED << storeSide, isRecording, recognizerRef, micPending, recognizers,
                         micRequests, transcript, eventLog, genSide, apiSettings >>
    ELSE /\ micRequests < MaxStarts
         /\ status' = StRequestingMic
         /\ micPending' = micPending + 1
         /\ micRequests' = micRequests + 1
         /\ lastCall' = "startRecording:requested"
         /\ UNCHANGED << storeSide, isRecording, recognizerRef, recognizers, showSettings,
                         transcript, eventLog, genSide, apiSettings >>

\* The Start Recording button: disabled={isRecording}.
StartClick ==
    /\ ~isRecording
    /\ startRecording

\* getUserMedia rejects: the inner catch.
GetUserMediaRejected ==
    /\ micPending > 0
    /\ micPending' = micPending - 1
    /\ status' = StMicDenied
    /\ lastCall' = "getUserMedia:rejected"
    /\ UNCHANGED << storeSide, isRecording, recognizerRef, recognizers, micRequests,
                    showSettings, transcript, eventLog, genSide, apiSettings >>

\* getUserMedia resolves: the recognizer is constructed, stored in
\* recognizerRef, its handlers are attached and its start is requested.
GetUserMediaResolved ==
    /\ micPending > 0
    /\ micPending' = micPending - 1
    /\ recognizers' = Append(recognizers, NewRecognizer)
    /\ recognizerRef' = Len(recognizers) + 1
    /\ lastCall' = "getUserMedia:resolved"
    /\ UNCHANGED << storeSide, isRecording, status, micRequests, showSettings, transcript,
                    eventLog, genSide, apiSettings >>

\* getUserMedia resolves and the SDK set-up throws before the recognizer is
\* stored: the outer catch.
SetupThrows ==
    /\ micPending > 0
    /\ micPending' = micPending - 1
    /\ status' = StSetupFailed
    /\ lastCall' = "setup:throws"
    /\ UNCHANGED << storeSide, isRecording, recognizerRef, recognizers, micRequests,
                    showSettings, transcript, eventLog, genSide, apiSettings >>

\* startContinuousRecognitionAsync's success callback.
StartSucceeded(r) ==
    /\ r \in 1..Len(recognizers)
    /\ recognizers[r].run = "starting"
    /\ recognizers' = [recognizers EXCEPT ![r].run = "running"]
    /\ isRecording' = TRUE
    /\ status' = StRecording
    /\ lastCall' = "start:succeeded"
    /\ UNCHANGED << storeSide, recognizerRef, micPending, micRequests, showSettings,
                    transcript, eventLog, genSide, apiSettings >>

StartErrorStatus(code) ==
    IF code = "1006" THEN StInvalidSpeechKey
    ELSE IF code = "1007" THEN StSpeechQuota
    ELSE StRecordingFailed

\* startContinuousRecognitionAsync's failure callback.
StartFailed(r, code) ==
    /\ r \in 1..Len(recognizers)
    /\ recognizers[r].run = "starting"
    /\ recognizers' = [recognizers EXCEPT ![r].run = "failed"]
    /\ isRecording' = FALSE
    /\ status' = StartErrorStatus(code)
    /\ lastCall' = "start:failed"
    /\ UNCHANGED << storeSide, recognizerRef, micPending, micRequests, showSettings,
                    transcript, eventLog, genSide, apiSettings >>

\* The recognizing handler's update of the transcript.
onRecognizing(prev, text) ==
    IF text # <<>> THEN prev \o << Space >> \o text ELSE prev

\* The recognized handler without its test of the result's reason.
onRecognized_anyReason(prev, reason, text) ==
    IF text # <<>> THEN prev \o << Space >> \o text ELSE prev

\* The recognized handler's update of the transcript.
onRecognized(prev, reason, text) ==
    IF reason = RecognizedSpeech /\ text # <<>>
    THEN prev \o << Space >> \o text
    ELSE prev

\* An interim result is delivered by an active recognizer.
Recognizing(r, text) ==
    /\ Active(r)
    /\ Len(eventLog) < MaxEvents
    /\ transcript' = onRecognizing(transcript, text)
    /\ eventLog' = Append(eventLog, [ kind |-> "recognizing", reason |-> "RecognizingSpeech", text |-> text ])
    /\ lastCall' = "recognizing"
    /\ UNCHANGED << storeSide, recVars, showSettings, genSide, apiSettings >>

\* A final result is delivered by an active recognizer.
Recognized(r, reason, text) ==
    /\ Active(r)
    /\ Len(eventLog) < MaxEvents
    /\ transcript' = onRecognized(transcript, reason, text)
    /\ eventLog' = Append(eventLog, [ kind |-> "recognized", reason |-> reason, text |-> text ])
    /\ lastCall' = "recognized"
    /\ UNCHANGED << storeSide, recVars, showSettings, genSide, apiSettings >>

\* A sessionStopped handler that updates the status only.
SessionStopped_statusOnly(r) ==
    /\ Active(r)
    /\ recognizers' = [recognizers EXCEPT ![r].run = "ended"]
    /\ status' = StSessionEnded
    /\ lastCall' = "sessionStopped"
    /\ UNCHANGED << storeSide, isRecording, recognizerRef, micPending, micRequests, showSettings,
                    transcript, eventLog, genSide, apiSettings >>

\* The engine ends the session on its own: the sessionStopped handler.
SessionStopped(r) ==
    /\ Active(r)
    /\ recognizers' = [recognizers EXCEPT ![r].run = "ended"]
    /\ isRecording' = FALSE
    /\ status' = StSessionEnded
    /\ lastCall' = "sessionStopped"
    /\ UNCHANGED << storeSide, recognizerRef, micPending, micRequests, showSettings,
                    transcript, eventLog, genSide, apiSettings >>

\* stopRecording whose branch without a handle forgets setIsRecording(false).
stopRecording_keepsRecording ==
    IF recognizerRef # 0
    THEN /\ recognizers' = [recognizers EXCEPT ![recognizerRef].stop = "pending"]
         /\ recognizerRef' = 0
         /\ lastCall' = "stopRecording:handle"
         /\ UNCHANGED << storeSide, isRecording, status, micPending, micRequests,
                         showSettings, transcript, eventLog, genSide, apiSettings >>
    ELSE /\ status' = StRecordingComplete
         /\ lastCall' = "stopRecording:nohandle"
         /\ UNCHANGED << storeSide, isRecording, recognizerRef, recognizers, micPending, micRequests,
                         showSettings, transcript, eventLog, genSide, apiSettings >>

\* stopRecording: with a handle, ask the engine to stop and drop the handle at
\* once; without one, go straight to the completed state.
stopRecording ==
    IF recognizerRef # 0
    THEN /\ recognizers' = [recognizers EXCEPT ![recognizerRef].stop = "pending"]
         /\ recognizerRef' = 0
         /\ lastCall' = "stopRecording:handle"
         /\ UNCHANGED << storeSide, isRecording, status, micPending, micRequests,
                         showSettings, transcript, eventLog, genSide, apiSettings >>
    ELSE /\ isRecording' = FALSE
         /\ status' = StRecordingComplete
         /\ lastCall' = "stopRecording:nohandle"
         /\ UNCHANGED << storeSide, recognizerRef, recognizers, micPending, micRequests,
                         showSettings, transcript, eventLog, genSide, apiSettings >>

\* The Stop Recording button: disabled={!isRecording}.
StopClick ==
    /\ isRecording
    /\ stopRecording

\* What a stop completion leaves of the recognizer.
Stopped(rec) ==
    [ run |-> IF rec.run = "running" THEN "ended" ELSE rec.run, stop |-> "done" ]

\* stopContinuousRecognitionAsync's success callback.
StopSucceeded(r) ==
    /\ r \in 1..Len(recognizers)
    /\ recognizers[r].stop = "pending"
    /\ recognizers' = [recognizers EXCEPT ![r] = Stopped(@)]
    /\ isRecording' = FALSE
    /\ status' = StRecordingComplete
    /\ lastCall' = "stop:succeeded"
    /\ UNCHANGED << storeSide, recognizerRef, micPending, micRequests, showSettings,
                    transcript, eventLog, genSide, apiSettings >>

\* stopContinuousRecognitionAsync's failure callback.
StopFailed(r) ==
    /\ r \in 1..Len(recognizers)
    /\ recognizers[r].stop = "pending"
    /\ recognizers' = [recognizers EXCEPT ![r] = Stopped(@)]
    /\ isRecording' = FALSE
    /\ status' = StStoppedWithError
    /\ lastCall' = "stop:failed"
    /\ UNCHANGED << storeSide, recognizerRef, micPending, micRequests, showSettings,
                    transcript, eventLog, genSide, apiSettings >>

\* A clear that also drops the selected patient.
clearCurrentSession_deselects ==
    /\ transcript' = <<>>
    /\ medicalNotes' = <<>>
    /\ status' = StReady
    /\ eventLog' = <<>>
    /\ selectedPatient' = <<>>
    /\ lastCall' = "clearCurrentSession"
    /\ requests' = [ i \in 1..Len(requests) |-> [requests[i] EXCEPT !.cleared = TRUE] ]
    /\ notesRequest' = <<>>
    /\ UNCHANGED << patients, showAddPatient, newPatient, aiPreferences,
                    showPreferences, storage, now, lastSaved, warnings,
                    isRecording, isProcessing, posts, recognizerRef,
                    micPending, recognizers, micRequests, showSettings, apiSettings >>

\* clearCurrentSession.
clearCurrentSession ==
    /\ transcript' = <<>>
    /\ medicalNotes' = <<>>
    /\ status' = StReady
    /\ eventLog' = <<>>
    /\ lastCall' = "clearCurrentSession"
    /\ requests' = [ i \in 1..Len(requests) |-> [requests[i] EXCEPT !.cleared = TRUE] ]
    /\ notesRequest' = <<>>
    /\ UNCHANGED << storeSide, isRecording, isProcessing, posts, recognizerRef,
                    micPending, recognizers, micRequests, showSettings, apiSettings >>

\* The API Settings button toggles the settings form.
ToggleSettings ==
    /\ showSettings' = ~showSettings
    /\ lastCall' = "toggleSettings"
    /\ UNCHANGED << storeSide, recVars, transcript, eventLog, genSide, apiSettings >>

\* What the model types into a credential field.
KeyValues == { <<>>, <<"k">> }

\* An input of the API Settings form changes (the form is shown):
\* setApiSettings({...apiSettings, [field]: value}).
SetApiSetting(field, v) ==
    /\ showSettings
    /\ apiSettings' = [apiSettings EXCEPT ![field] = v]
    /\ lastCall' = "setApiSettings"
    /\ UNCHANGED << storeSide, recVars, showSettings, transcript, eventLog, genSide >>

RecIds == 1..MaxStarts

\* The session's life cycle under every interleaving of the user's clicks and
\* the engine's callbacks. The life cycle never reads the transcript, so the
\* engine's results are interim results of one text here.
NextRec ==
    \/ StartClick
    \/ GetUserMediaRejected
    \/ GetUserMediaResolved
    \/ SetupThrows
    \/ \E r \in RecIds : StartSucceeded(r)
    \/ \E r \in RecIds, code \in StartErrors : StartFailed(r, code)
    \/ \E r \in RecIds : Recognizing(r, <<"a">>)
    \/ \E r \in RecIds : SessionStopped(r)
    \/ StopClick
    \/ \E r \in RecIds : StopSucceeded(r)
    \/ \E r \in RecIds : StopFailed(r)
    \/ clearCurrentSession
    \/ \E v \in KeyValues : SetApiSetting("speechKey", v)

SpecRec == Init /\ [][NextRec]_vars

\* One recording session at a time, with every result the engine may deliver.
NextTranscript ==
    \/ (micPending = 0 /\ (\A r \in 1..Len(recognizers) : recognizers[r].run # "starting") /\ StartClick)
    \/ GetUserMediaResolved
    \/ \E r \in RecIds : StartSucceeded(r)
    \/ \E r \in RecIds, text \in Texts : Recognizing(r, text)
    \/ \E r \in RecIds, reason \in ResultReasons, text \in Texts : Recognized(r, reason, text)
    \/ \E r \in RecIds : SessionStopped(r)
    \/ StopClick
    \/ \E r \in RecIds : StopSucceeded(r)
    \/ clearCurrentSession
    \/ \E v \in KeyValues : SetApiSetting("speechKey", v)

SpecTranscript == Init /\ [][NextTranscript]_vars

\* The handlers called in any state, the buttons' disabled flags aside.
NextRecCalls ==
    \/ NextRec
    \/ startRecording
    \/ stopRecording

SpecRecCalls == Init /\ [][NextRecCalls]_vars

\* The engine answers every stop request, with a success or with a failure.
FairSpecRec ==
    SpecRec /\ \A r \in RecIds : WF_vars(StopSucceeded(r) \/ StopFailed(r))

\* ------------------------------------------------- the recording session's claims
\* The recognizer the handle holds is Active.
HandleActive == recognizerRef # 0 /\ Active(recognizerRef)

Idle == ~isRecording /\ recognizerRef = 0

\* Whether a delivered event adds to the transcript.
Contributes(e) ==
    /\ e.text # <<>>
    /\ e.kind = "recognizing" \/ e.reason = RecognizedSpeech

\* Each contributing event, in delivery order, as a space followed by its text.
RECURSIVE Rendered(_)
Rendered(log) ==
    IF log = <<>> THEN <<>>
    ELSE LET e == log[Len(log)]
             before == Rendered(SubSeq(log, 1, Len(log) - 1))
         IN  IF Contributes(e) THEN before \o << Space >> \o e.text ELSE before

\* The texts of the interim events and of the final RecognizedSpeech events.
RECURSIVE CountedTexts(_)
CountedTexts(log) ==
    IF log = <<>> THEN <<>>
    ELSE LET e == Head(log)
         IN  IF e.kind = "recognizing" \/ e.reason = RecognizedSpeech
             THEN << e.text >> \o CountedTexts(Tail(log))
             ELSE CountedTexts(Tail(log))

\* Array.prototype.join(' ') of a list of texts.
RECURSIVE SpaceJoined(_)
SpaceJoined(texts) ==
    IF texts = <<>> THEN <<>>
    ELSE IF Len(texts) = 1 THEN texts[1]
    ELSE texts[1] \o << Space >> \o SpaceJoined(Tail(texts))

\* C1 as stated: the transcript is the space-joined concatenation, in delivery
\* order, of the texts of all interim events and of the final events whose
\* reason is RecognizedSpeech.
C1_TranscriptIsSpaceJoined ==
    transcript = SpaceJoined(CountedTexts(eventLog))

\* C1 amended: since the last clear the transcript is, for each delivered event
\* in delivery order whose text is not empty and that is interim or a final
\* RecognizedSpeech, one space followed by the event's text; nothing else is
\* added, nothing is reordered or merged.
C1_TranscriptIsRendered ==
    transcript = Rendered(eventLog)

\* C1's case: a final RecognizedSpeech result, then one of another reason, both
\* with text, were delivered to an active session.
C1_Witness ==
    /\ Len(eventLog) = 2
    /\ eventLog[1] = [ kind |-> "recognized", reason |-> RecognizedSpeech, text |-> <<"a">> ]
    /\ eventLog[2] = [ kind |-> "recognized", reason |-> NoMatch, text |-> <<" ">> ]
    /\ transcript = << Space, "a" >>

\* C2: a startRecording call while the session is Active changes neither the
\* handle, isRecording, the transcript nor the status, requests no microphone
\* and constructs no recognizer.
C2_StartWhileActiveNoEffect ==
    [][ (HandleActive /\ startRecording) =>
            UNCHANGED << recognizerRef, isRecording, transcript, status,
                         micPending, micRequests, recognizers >> ]_vars

\* C3: at most one start is in flight: the pending permission requests and the
\* recognizers being started number at most one.
C3_SingleStartInFlight ==
    micPending + Cardinality({ r \in 1..Len(recognizers) : recognizers[r].run = "starting" }) <= 1

\* C4: a stopRecording call without a handle ends with isRecording false and
\* the 'Recording complete' status, makes no call on the engine and leaves the
\* null handle and everything else as it was; from the state it produces, a
\* further call changes nothing.
C4_StopFromIdle ==
    [][ (recognizerRef = 0 /\ stopRecording) =>
            /\ isRecording' = FALSE
            /\ status' = StRecordingComplete
            /\ recognizerRef' = 0
            /\ UNCHANGED << recognizers, micPending, micRequests, transcript,
                            genSide, apiSettings, showSettings, storeSide >>
            /\ (~isRecording /\ status = StRecordingComplete /\ lastCall = "stopRecording:nohandle"
                   => UNCHANGED vars) ]_vars

\* C4's case: stopRecording was called with no recognizer ever constructed.
C4_Witness ==
    /\ lastCall = "stopRecording:nohandle"
    /\ recognizers = <<>>
    /\ ~isRecording
    /\ status = StRecordingComplete

\* A recognizer that was Active is being stopped.
StoppingFromActive ==
    \E r \in 1..Len(recognizers) :
        recognizers[r].run = "running" /\ recognizers[r].stop = "pending"

\* C5: after stop() from Active the session reaches Idle: isRecording false and
\* the handle cleared.
C5_StopReachesIdle == StoppingFromActive ~> Idle

RemoveAt(seq, i) == SubSeq(seq, 1, i - 1) \o SubSeq(seq, i + 1, Len(seq))

\* The test !transcript.trim() without the trim.
NoTranscript_untrimmed(t) == t = <<>>

\* !transcript.trim()
NoTranscript(t) == Trim(t) = <<>>

\* The values of the Note Style select.
StyleStandard == <<"s", "t", "a", "n", "d", "a", "r", "d">>
StyleDetailed == <<"d", "e", "t", "a", "i", "l", "e", "d">>
StyleConcise == <<"c", "o", "n", "c", "i", "s", "e">>
NoteStyles == { StyleStandard, StyleDetailed, StyleConcise }

\* The pieces of the system prompt. A piece nothing looks into is one element;
\* the two section tokens are spelled out, as typed text is.
PromptIntro == << "You are a medical scribe assistant specializing in obesity medicine. " >>
DetailedClause == << "Create comprehensive, detailed medical notes. " >>
ConciseClause == << "Create concise, focused medical notes. " >>
StandardClause == << "Create standard medical notes. " >>
SectionsIntro == << "Include the following sections: " >>
AssessmentToken == <<"A", "s", "s", "e", "s", "s", "m", "e", "n", "t", ",", " ">>
PlanToken == <<"P", "l", "a", "n", ",", " ">>
ChiefComplaint == << "Chief Complaint" >>
HistoryOfPresentIllness == << "History of Present Illness" >>
FixedSections == ChiefComplaint \o <<",", " ">> \o HistoryOfPresentIllness \o <<".", " ">>
AdditionalIntro == << "Additional instructions: " >>
PromptClosing == << "Use appropriate medical terminology and maintain professional format." >>

\* if (noteStyle === 'detailed') ... else if (noteStyle === 'concise') ... else ...
StyleClause(noteStyle) ==
    IF noteStyle = StyleDetailed THEN DetailedClause
    ELSE IF noteStyle = StyleConcise THEN ConciseClause
    ELSE StandardClause

\* The 'Additional instructions' clause, added when customInstructions is truthy.
InstructionsClause(customInstructions) ==
    IF customInstructions # <<>>
    THEN AdditionalIntro \o customInstructions \o << " " >>
    ELSE <<>>

\* An assembly whose Plan token follows includeAssessment.
SystemPrompt_planFollowsAssessment(prefs) ==
    PromptIntro \o StyleClause(prefs.noteStyle) \o SectionsIntro
        \o (IF prefs.includeAssessment THEN AssessmentToken ELSE <<>>)
        \o (IF prefs.includeAssessment THEN PlanToken ELSE <<>>)
        \o FixedSections
        \o InstructionsClause(prefs.customInstructions)
        \o PromptClosing

\* systemPrompt as generateMedicalNotes assembles it.
SystemPrompt(prefs) ==
    PromptIntro \o StyleClause(prefs.noteStyle) \o SectionsIntro
        \o (IF prefs.includeAssessment THEN AssessmentToken ELSE <<>>)
        \o (IF prefs.includePlan THEN PlanToken ELSE <<>>)
        \o FixedSections
        \o InstructionsClause(prefs.customInstructions)
        \o PromptClosing

\* generateMedicalNotes, up to its await of axios.post.
generateMedicalNotes ==
    IF NoTranscript(transcript)
    THEN /\ status' = StNoTranscript
         /\ lastCall' = "generateMedicalNotes:notranscript"
         /\ UNCHANGED << storeSide, recVarsButStatus, transcript, eventLog, genSide,
                         apiSettings, showSettings >>
    ELSE IF \/ apiSettings.openaiEndpoint = <<>>
            \/ apiSettings.openaiKey = <<>>
            \/ apiSettings.openaiDeployment = <<>>
    THEN /\ status' = StConfigureOpenAI
         /\ showSettings' = TRUE
         /\ lastCall' = "generateMedicalNotes:unconfigured"
         /\ UNCHANGED << storeSide, recVarsButStatus, transcript, eventLog, genSide, apiSettings >>
    ELSE /\ posts < MaxPosts
         /\ isProcessing' = TRUE
         /\ status' = StGenerating
         /\ requests' = Append(requests, [ transcript |-> transcript,
                                          system |-> SystemPrompt(aiPreferences),
                                          cleared |-> FALSE ])
         /\ posts' = posts + 1
         /\ lastCall' = "generateMedicalNotes:posted"
         /\ UNCHANGED << storeSide, recVarsButStatus, transcript, eventLog, medicalNotes,
                         notesRequest, apiSettings, showSettings >>

\* The Generate Notes button: disabled={isProcessing || !transcript.trim()}.
GenerateClick ==
    /\ ~isProcessing
    /\ ~NoTranscript(transcript)
    /\ generateMedicalNotes

\* axios.post resolves with choices[0].message.content: the end of the try
\* block, then finally.
CompletionSucceeded(i, content) ==
    /\ i \in 1..Len(requests)
    /\ requests' = RemoveAt(requests, i)
    /\ medicalNotes' = content
    /\ notesRequest' = requests[i].transcript
    /\ status' = StNotesGenerated
    /\ isProcessing' = FALSE
    /\ lastCall' = "completion:succeeded"
    /\ UNCHANGED << storeSide, recVarsButStatus, transcript, eventLog, posts, apiSettings,
                    showSettings >>

\* A catch block with the generic message only.
FailureStatus_generic(code) == StGenerateFailed

\* The status the catch block sets for error.response?.status.
FailureStatus(code) ==
    IF code = "401" THEN StAuthFailed
    ELSE IF code = "404" THEN StDeploymentNotFound
    ELSE IF code = "429" THEN StRateLimited
    ELSE StGenerateFailed

\* axios.post rejects, or the response has no choices[0]: catch, then finally.
CompletionFailed(i, code) ==
    /\ i \in 1..Len(requests)
    /\ requests' = RemoveAt(requests, i)
    /\ status' = FailureStatus(code)
    /\ isProcessing' = FALSE
    /\ lastCall' = "completion:failed"
    /\ UNCHANGED << storeSide, recVarsButStatus, transcript, eventLog, medicalNotes,
                    notesRequest, posts, apiSettings, showSettings >>

PostIds == 1..MaxPosts

\* One recording session whose results are interim, and note generation as
\* the user's clicks and the service's answers drive it.
NextGen ==
    \/ (micRequests = 0 /\ StartClick)
    \/ GetUserMediaResolved
    \/ \E r \in RecIds : StartSucceeded(r)
    \/ \E r \in RecIds, text \in { <<"a">>, <<" ">> } : Recognizing(r, text)
    \/ clearCurrentSession
    \/ \E field \in { "speechKey", "openaiEndpoint", "openaiKey" }, v \in KeyValues :
           SetApiSetting(field, v)
    \/ GenerateClick
    \/ \E i \in PostIds, content \in NoteTexts : CompletionSucceeded(i, content)
    \/ \E i \in PostIds, code \in HttpFailures : CompletionFailed(i, code)

SpecGen == Init /\ [][NextGen]_vars

\* The same with generateMedicalNotes called in any state, the button's
\* disabled flag aside.
NextGenCalls ==
    \/ NextGen
    \/ generateMedicalNotes

SpecGenCalls == Init /\ [][NextGenCalls]_vars

\* ------------------------------------------------- note generation's claims
\* C7: generateMedicalNotes with an empty or all-white-space transcript posts
\* nothing to the completion service, leaves isProcessing and medicalNotes as
\* they were and sets the 'No transcript available' status.
C7_EmptyTranscriptNoCall ==
    [][ (Trim(transcript) = <<>> /\ generateMedicalNotes) =>
            /\ UNCHANGED << requests, posts, isProcessing, medicalNotes >>
            /\ status' = StNoTranscript ]_vars

\* C7's case: the completion service is configured, the transcript is white
\* space only, and generateMedicalNotes has just run.
C7_Witness ==
    /\ lastCall = "generateMedicalNotes:notranscript"
    /\ transcript # <<>>
    /\ apiSettings.openaiEndpoint # <<>>
    /\ apiSettings.openaiKey # <<>>
    /\ status = StNoTranscript
    /\ posts = 0

\* C8: after a failed generation medicalNotes does not hold the notes of an
\* earlier successful generation.
C8_FailureReplacesNotes ==
    lastCall = "completion:failed" => medicalNotes \notin NoteTexts

\* At most one request is in flight, and isProcessing is TRUE exactly then.
SingleFlight ==
    /\ Len(requests) <= 1
    /\ isProcessing <=> requests # <<>>

\* C11: generateMedicalNotes called while isProcessing is TRUE posts nothing
\* and changes no state, so in every state at most one request is in flight
\* and isProcessing is TRUE exactly while it is.
C11_SingleFlightGeneration ==
    /\ []SingleFlight
    /\ [][ (isProcessing /\ generateMedicalNotes) =>
              UNCHANGED << requests, posts, isProcessing, medicalNotes, status,
                           showSettings, transcript >> ]_vars

\* ------------------------------------------------- patients and documents
PatientsKey == "medicalScribePatients"
PreferencesKey == "medicalScribePreferences"
SettingsKey == "medicalScribeApiSettings"

\* Everything the session owns, which the patient and document operations
\* leave alone.
sessionSide == << isRecording, transcript, medicalNotes, isProcessing,
                 recognizerRef, micPending, recognizers, requests, micRequests,
                 eventLog, posts, notesRequest >>

\* localStorage.setItem(key, text) inside try / catch: the item is written, or
\* setItem throws, the store is as before and the catch calls console.warn.
SetItem(key, text, doc, ok) ==
    IF ok
    THEN /\ storage' = [storage EXCEPT ![key] = text]
         /\ lastSaved' = [lastSaved EXCEPT ![key] = << doc >>]
         /\ UNCHANGED warnings
    ELSE /\ warnings < MaxWarnings
         /\ warnings' = warnings + 1
         /\ UNCHANGED << storage, lastSaved >>

\* savePatients
savePatients(updatedPatients, ok) ==
    /\ patients' = updatedPatients
    /\ SetItem(PatientsKey, PatientsText(updatedPatients), updatedPatients, ok)

\* savePreferences
savePreferences(prefs, ok) ==
    /\ aiPreferences' = prefs
    /\ SetItem(PreferencesKey, PreferencesText(prefs), prefs, ok)

\* saveApiSettings
saveApiSettings(settings, ok) ==
    /\ apiSettings' = settings
    /\ SetItem(SettingsKey, SettingsText(settings), settings, ok)

\* The Add Patient button toggles the form.
ToggleAddPatient ==
    /\ showAddPatient' = ~showAddPatient
    /\ lastCall' = "toggleAddPatient"
    /\ UNCHANGED << sessionSide, status, apiSettings, showSettings, patients,
                    selectedPatient, newPatient, aiPreferences, showPreferences,
                    storage, now, lastSaved, warnings >>

\* An input of the Add Patient form changes:
\* setNewPatient({...newPatient, [field]: value}).
SetNewPatient(field, v) ==
    /\ showAddPatient
    /\ newPatient' = [newPatient EXCEPT ![field] = v]
    /\ lastCall' = "setNewPatient"
    /\ UNCHANGED << sessionSide, status, apiSettings, showSettings, patients,
                    selectedPatient, showAddPatient, aiPreferences,
                    showPreferences, storage, now, lastSaved, warnings >>

\* The record addPatient builds; Date.now() and new Date() read the clock at
\* the same reading.
NewPatientRecord ==
    [ id |-> now,
      name |-> newPatient.name,
      dob |-> newPatient.dob,
      mrn |-> newPatient.mrn,
      conditions |-> newPatient.conditions,
      visits |-> <<>>,
      createdAt |-> ToISOString(now) ]

\* The test !newPatient.name.trim() without the trim.
NoName_untrimmed(name) == name = <<>>

\* !newPatient.name.trim()
NoName(name) == Trim(name) = <<>>

\* addPatient
addPatient ==
    IF NoName(newPatient.name)
    THEN /\ lastCall' = "addPatient:rejected"
         /\ UNCHANGED << sessionSide, status, apiSettings, showSettings, patients,
                         selectedPatient, showAddPatient, newPatient,
                         aiPreferences, showPreferences, storage, now, lastSaved, warnings >>
    ELSE /\ Len(patients) < MaxPatients
         /\ \E ok \in BOOLEAN :
                /\ savePatients(Append(patients, NewPatientRecord), ok)
                /\ lastCall' = IF ok THEN "addPatient:saved" ELSE "addPatient:unsaved"
         /\ newPatient' = InitNewPatient
         /\ showAddPatient' = FALSE
         /\ status' = StPatientAdded
         /\ UNCHANGED << sessionSide, apiSettings, showSettings, selectedPatient,
                         aiPreferences, showPreferences, now >>

\* The Save Patient button of the Add Patient form.
AddPatientClick ==
    /\ showAddPatient
    /\ addPatient

\* Array.prototype.find: the first record with the id, in a sequence that
\* holds it or is empty.
Found(ps, id) ==
    IF \E i \in 1..Len(ps) : ps[i].id = id
    THEN << ps[CHOOSE i \in 1..Len(ps) :
                 /\ ps[i].id = id
                 /\ \A j \in 1..(i - 1) : ps[j].id # id] >>
    ELSE <<>>

\* The patient select's onChange, selectPatient(patients.find(...)): with a
\* patient's option selectPatient stores the record and sets the status; with
\* the 'Select Patient...' option find returns undefined, which
\* setSelectedPatient stores before patient.name throws.
SelectChange(value) ==
    /\ value = 0 \/ \E i \in 1..Len(patients) : patients[i].id = value
    /\ selectedPatient' = Found(patients, value)
    /\ IF Found(patients, value) # <<>>
       THEN /\ status' = StPatientSelected
            /\ lastCall' = "selectPatient"
       ELSE /\ status' = status
            /\ lastCall' = "selectPatient:undefined"
    /\ UNCHANGED << sessionSide, apiSettings, showSettings, patients,
                    showAddPatient, newPatient, aiPreferences, showPreferences,
                    storage, now, lastSaved, warnings >>

\* The Visit saveVisitToPatient builds.
NewVisit ==
    [ id |-> now,
      date |-> ToISOString(now),
      transcript |-> transcript,
      notes |-> medicalNotes,
      timestamp |-> ToLocaleString(now) ]

\* patients.map(p => p.id === selectedPatient.id ? {...p, visits: [...p.visits, visit]} : p)
WithVisit(ps, id, visit) ==
    [ i \in 1..Len(ps) |->
        IF ps[i].id = id THEN [ps[i] EXCEPT !.visits = Append(@, visit)] ELSE ps[i] ]

\* A save that leaves the selected record as it was.
SelectedAfterSave_stale(updatedPatients, id) == selectedPatient

\* setSelectedPatient(updatedPatients.find(p => p.id === selectedPatient.id))
SelectedAfterSave(updatedPatients, id) == Found(updatedPatients, id)

\* saveVisitToPatient
saveVisitToPatient ==
    IF selectedPatient = <<>> \/ Trim(medicalNotes) = <<>>
    THEN /\ status' = StSelectAndGenerate
         /\ lastCall' = "saveVisitToPatient:rejected"
         /\ UNCHANGED << sessionSide, apiSettings, showSettings, patients,
                         selectedPatient, showAddPatient, newPatient,
                         aiPreferences, showPreferences, storage, now, lastSaved, warnings >>
    ELSE LET id == selectedPatient[1].id
             updatedPatients == WithVisit(patients, id, NewVisit)
         IN  /\ \A i \in 1..Len(patients) :
                    patients[i].id = id => Len(patients[i].visits) < MaxVisits
             /\ \E ok \in BOOLEAN :
                    /\ savePatients(updatedPatients, ok)
                    /\ lastCall' = IF ok THEN "saveVisitToPatient:saved"
                                         ELSE "saveVisitToPatient:unsaved"
             /\ selectedPatient' = SelectedAfterSave(updatedPatients, id)
             /\ status' = StVisitSaved
             /\ UNCHANGED << sessionSide, apiSettings, showSettings,
                             showAddPatient, newPatient, aiPreferences,
                             showPreferences, now >>

\* The Save to Patient button:
\* disabled={!selectedPatient || !medicalNotes.trim()}.
SaveVisitClick ==
    /\ selectedPatient # <<>>
    /\ Trim(medicalNotes) # <<>>
    /\ saveVisitToPatient

\* The AI Preferences button toggles the form.
TogglePreferences ==
    /\ showPreferences' = ~showPreferences
    /\ lastCall' = "togglePreferences"
    /\ UNCHANGED << sessionSide, status, apiSettings, showSettings, patients,
                    selectedPatient, showAddPatient, newPatient, aiPreferences,
                    storage, now, lastSaved, warnings >>

\* An input of the AI Preferences form changes:
\* setAiPreferences({...aiPreferences, [field]: value}).
SetPreference(field, v) ==
    /\ showPreferences
    /\ aiPreferences' = [aiPreferences EXCEPT ![field] = v]
    /\ lastCall' = "setAiPreferences"
    /\ UNCHANGED << sessionSide, status, apiSettings, showSettings, patients,
                    selectedPatient, showAddPatient, newPatient, showPreferences,
                    storage, now, lastSaved, warnings >>

\* The Save Preferences button.
SavePreferencesClick ==
    /\ showPreferences
    /\ \E ok \in BOOLEAN :
           /\ savePreferences(aiPreferences, ok)
           /\ lastCall' = IF ok THEN "savePreferences:saved" ELSE "savePreferences:unsaved"
    /\ showPreferences' = FALSE
    /\ UNCHANGED << sessionSide, status, apiSettings, showSettings, patients,
                    selectedPatient, showAddPatient, newPatient, now >>

\* The Save API Settings button.
SaveApiSettingsClick ==
    /\ showSettings
    /\ \E ok \in BOOLEAN :
           /\ saveApiSettings(apiSettings, ok)
           /\ lastCall' = IF ok THEN "saveApiSettings:saved" ELSE "saveApiSettings:unsaved"
    /\ showSettings' = FALSE
    /\ status' = StSettingsSaved
    /\ UNCHANGED << sessionSide, patients, selectedPatient, showAddPatient,
                    newPatient, aiPreferences, showPreferences, now >>

\* Time passes.
Tick ==
    /\ now < MaxClock
    /\ now' = now + 1
    /\ lastCall' = "tick"
    /\ UNCHANGED << sessionSide, status, apiSettings, showSettings, patients,
                    selectedPatient, showAddPatient, newPatient, aiPreferences,
                    showPreferences, storage, lastSaved, warnings >>

\* What the mount effect leaves in a state for an item's text: the parsed
\* document if (saved), else the useState default.
Loaded(text, default) == IF text # <<>> THEN JSONparse(text) ELSE default

\* The page is loaded again: every useState and useRef starts over, the old
\* page's recognizers and requests are gone, and the mount effect reads the
\* three items; when getItem throws nothing is loaded and the catch calls
\* console.warn.
Restart(readable) ==
    /\ isRecording' = FALSE
    /\ transcript' = <<>>
    /\ medicalNotes' = <<>>
    /\ notesRequest' = <<>>
    /\ isProcessing' = FALSE
    /\ selectedPatient' = <<>>
    /\ showAddPatient' = FALSE
    /\ newPatient' = InitNewPatient
    /\ showPreferences' = FALSE
    /\ showSettings' = FALSE
    /\ recognizerRef' = 0
    /\ micPending' = 0
    /\ recognizers' = <<>>
    /\ requests' = <<>>
    /\ micRequests' = 0
    /\ eventLog' = <<>>
    /\ posts' = 0
    /\ IF readable
       THEN /\ patients' = Loaded(storage[PatientsKey], <<>>)
            /\ aiPreferences' = Loaded(storage[PreferencesKey], InitAiPreferences)
            /\ apiSettings' = Loaded(storage[SettingsKey], InitApiSettings)
            /\ status' = IF /\ storage[SettingsKey] # <<>>
                            /\ JSONparse(storage[SettingsKey]).speechKey # <<>>
                            /\ JSONparse(storage[SettingsKey]).openaiKey # <<>>
                         THEN StReady ELSE StInitial
            /\ warnings' = 0
            /\ lastCall' = "restart:loaded"
       ELSE /\ patients' = <<>>
            /\ aiPreferences' = InitAiPreferences
            /\ apiSettings' = InitApiSettings
            /\ status' = StInitial
            /\ warnings' = 1
            /\ lastCall' = "restart:unreadable"
    /\ UNCHANGED << storage, now, lastSaved >>

\* What the model types into the name of the Add Patient form and into the
\* custom instructions of the preferences.
NameValues == { <<>>, << Space >>, << "a", Quote >> }
InstructionValues == { <<>>, << "b", Backslash >> }

\* A run that keeps patients: no preferences or settings document is stored.
PatientsScenario ==
    /\ storage[PreferencesKey] = <<>>
    /\ storage[SettingsKey] = <<>>
    /\ aiPreferences = InitAiPreferences
    /\ ~showPreferences

\* A run that keeps preferences and settings: no patient, no recording.
DocumentsScenario ==
    /\ patients = <<>>
    /\ storage[PatientsKey] = <<>>
    /\ micRequests = 0
    /\ ~showAddPatient
    /\ ~(showSettings /\ showPreferences)

\* No notes yet: the run records and generates.
InSession == PatientsScenario /\ medicalNotes = <<>>

\* Notes are there to be saved and nothing is in flight: the run keeps patients.
SessionReady == PatientsScenario /\ medicalNotes # <<>> /\ requests = <<>>

\* One recording with one result and one generation: what a visit is made of.
NextSession ==
    \/ (InSession /\ micRequests = 0 /\ StartClick)
    \/ \E field \in { "speechKey", "openaiEndpoint", "openaiKey" } :
           InSession /\ apiSettings[field] = <<>> /\ SetApiSetting(field, <<"k">>)
    \/ (InSession /\ GetUserMediaResolved)
    \/ \E r \in RecIds : InSession /\ StartSucceeded(r)
    \/ \E r \in RecIds : InSession /\ eventLog = <<>> /\ Recognizing(r, <<"a">>)
    \/ (InSession /\ GenerateClick)
    \/ \E i \in PostIds : InSession /\ CompletionSucceeded(i, <<"n">>)

NextPatients ==
    \/ (SessionReady /\ ToggleAddPatient)
    \/ \E v \in NameValues : SessionReady /\ SetNewPatient("name", v)
    \/ (SessionReady /\ AddPatientClick)
    \/ \E value \in 0..MaxClock : SessionReady /\ SelectChange(value)
    \/ (SessionReady /\ SaveVisitClick)
    \/ (SessionReady /\ Tick)
    \/ \E readable \in BOOLEAN : SessionReady /\ Restart(readable)

NextDocuments ==
    \/ (DocumentsScenario /\ ToggleSettings)
    \/ \E field \in { "speechKey", "openaiKey" }, v \in KeyValues :
           DocumentsScenario /\ SetApiSetting(field, v)
    \/ (DocumentsScenario /\ SaveApiSettingsClick)
    \/ (DocumentsScenario /\ TogglePreferences)
    \/ \E v \in BOOLEAN : DocumentsScenario /\ SetPreference("includePlan", v)
    \/ \E v \in InstructionValues : DocumentsScenario /\ SetPreference("customInstructions", v)
    \/ (DocumentsScenario /\ SavePreferencesClick)
    \/ \E readable \in BOOLEAN : DocumentsScenario /\ Restart(readable)

\* The three stored documents over restarts: a run records and generates and
\* then keeps patients, or it edits and saves preferences and settings.
NextStore ==
    \/ NextSession
    \/ NextPatients
    \/ NextDocuments

SpecStore == Init /\ [][NextStore]_vars

\* ------------------------------------------------------------ store claims
\* A step of saveVisitToPatient past its guard.
SaveVisitStep ==
    lastCall' \in { "saveVisitToPatient:saved", "saveVisitToPatient:unsaved" }

\* A step of the running page (not a reload).
RunStep == lastCall' \notin { "restart:loaded", "restart:unreadable" }

\* s is a prefix of t.
IsPrefix(s, t) == Len(s) <= Len(t) /\ \A k \in 1..Len(s) : t[k] = s[k]

\* C9: saving a visit with a selected patient and non-empty notes appends
\* exactly one Visit at the end of the selected patient's visits and leaves
\* every other patient unchanged; and no step of the running page removes,
\* reorders or modifies a visit already held for any patient.
C9_SaveVisitAppendsOne ==
    [][ /\ SaveVisitStep =>
            /\ Len(patients') = Len(patients)
            /\ \E i \in 1..Len(patients) :
                   /\ patients[i].id = selectedPatient[1].id
                   /\ patients'[i] = [patients[i] EXCEPT !.visits = Append(@, NewVisit)]
                   /\ \A j \in (1..Len(patients)) \ {i} : patients'[j] = patients[j]
        /\ RunStep =>
            /\ Len(patients) <= Len(patients')
            /\ \A i \in 1..Len(patients) :
                   IsPrefix(patients[i].visits, patients'[i].visits)
      ]_vars

\* C10: after a restart that reads the store, each document that was ever
\* written is in memory exactly as it was in memory at its last write, and
\* stringifying it again gives the stored text.
C10_RoundTrip ==
    lastCall = "restart:loaded" =>
        /\ lastSaved[PatientsKey] # <<>> =>
               /\ patients = lastSaved[PatientsKey][1]
               /\ PatientsText(patients) = storage[PatientsKey]
        /\ lastSaved[PreferencesKey] # <<>> =>
               /\ aiPreferences = lastSaved[PreferencesKey][1]
               /\ PreferencesText(aiPreferences) = storage[PreferencesKey]
        /\ lastSaved[SettingsKey] # <<>> =>
               /\ apiSettings = lastSaved[SettingsKey][1]
               /\ SettingsText(apiSettings) = storage[SettingsKey]

\* A restart has loaded a patient whose name holds a quote and who has a visit.
C10_Witness ==
    /\ lastCall = "restart:loaded"
    /\ Len(patients) >= 1
    /\ Len(patients[1].visits) >= 1
    /\ \E k \in 1..Len(patients[1].name) : patients[1].name[k] = Quote

\* ------------------------------------------------------- prompt assembly
\* What the model types into the custom instructions before a generation.
PromptInstructionValues == { <<>>, << "b" >>, PlanToken }

\* One recording with one result, the preferences edited at any time, and the
\* generations that follow.
NextPrompt ==
    \/ (micRequests = 0 /\ StartClick)
    \/ \E field \in { "speechKey", "openaiEndpoint", "openaiKey" } :
           apiSettings[field] = <<>> /\ SetApiSetting(field, <<"k">>)
    \/ GetUserMediaResolved
    \/ \E r \in RecIds : StartSucceeded(r)
    \/ \E r \in RecIds : eventLog = <<>> /\ Recognizing(r, <<"a">>)
    \/ TogglePreferences
    \/ \E v \in NoteStyles : SetPreference("noteStyle", v)
    \/ \E v \in BOOLEAN : SetPreference("includeAssessment", v)
    \/ \E v \in BOOLEAN : SetPreference("includePlan", v)
    \/ \E v \in PromptInstructionValues : SetPreference("customInstructions", v)
    \/ GenerateClick
    \/ \E i \in PostIds : CompletionSucceeded(i, <<"n">>)

SpecPrompt == Init /\ [][NextPrompt]_vars

\* t occurs in s.
Contains(s, t) ==
    \E i \in 0..(Len(s) - Len(t)) : SubSeq(s, i + 1, i + Len(t)) = t

\* How many times t occurs in s.
Occurrences(s, t) ==
    Cardinality({ i \in 0..(Len(s) - Len(t)) : SubSeq(s, i + 1, i + Len(t)) = t })

\* How many style clauses s holds.
StyleClauses(s) ==
    Occurrences(s, DetailedClause) + Occurrences(s, ConciseClause)
        + Occurrences(s, StandardClause)

\* The system prompt of the request just posted.
PostedPrompt == requests[Len(requests)].system

\* The part of the posted prompt before the 'Additional instructions' clause
\* and the closing sentence.
PostedSections ==
    SubSeq(PostedPrompt, 1,
           Len(PostedPrompt) - Len(InstructionsClause(aiPreferences.customInstructions))
                             - Len(PromptClosing))

\* What C12 says of a text, for the preferences of the state.
FollowsPreferences(text) ==
    /\ StyleClauses(text) = 1
    /\ Contains(text, StyleClause(aiPreferences.noteStyle))
    /\ Contains(text, AssessmentToken) <=> aiPreferences.includeAssessment
    /\ Contains(text, PlanToken) <=> aiPreferences.includePlan
    /\ Contains(text, ChiefComplaint)
    /\ Contains(text, HistoryOfPresentIllness)

\* C12 as stated: the posted system prompt holds exactly one style clause,
\* the selected one, the 'Assessment, ' token iff includeAssessment, the
\* 'Plan, ' token iff includePlan, 'Chief Complaint' and 'History of Present
\* Illness', and the custom instructions iff they are not empty.
C12_PromptFollowsPreferences ==
    lastCall = "generateMedicalNotes:posted" =>
        /\ FollowsPreferences(PostedPrompt)
        /\ aiPreferences.customInstructions # <<>> <=> Contains(PostedPrompt, AdditionalIntro)
        /\ Contains(PostedPrompt, aiPreferences.customInstructions)

\* C12 amended: the same of the prompt before the 'Additional instructions'
\* clause, which follows it, holds the custom instructions as typed and is
\* there iff they are not empty; the closing sentence ends the prompt.
C12_SectionsFollowPreferences ==
    lastCall = "generateMedicalNotes:posted" =>
        /\ FollowsPreferences(PostedSections)
        /\ PostedPrompt = PostedSections
                            \o InstructionsClause(aiPreferences.customInstructions)
                            \o PromptClosing
        /\ aiPreferences.customInstructions # <<>> <=> Contains(PostedPrompt, AdditionalIntro)
        /\ Contains(PostedPrompt, aiPreferences.customInstructions)
        /\ (/\ aiPreferences.noteStyle = StyleConcise
            /\ ~aiPreferences.includeAssessment
            /\ aiPreferences.includePlan
            /\ aiPreferences.customInstructions = <<>>)
           => /\ Contains(PostedPrompt, ConciseClause)
              /\ ~Contains(PostedPrompt, AssessmentToken)
              /\ Contains(PostedPrompt, PlanToken)

\* A request was just posted under {concise, no assessment, plan, no custom
\* instructions}.
C12_Witness ==
    /\ lastCall = "generateMedicalNotes:posted"
    /\ aiPreferences.noteStyle = StyleConcise
    /\ ~aiPreferences.includeAssessment
    /\ aiPreferences.includePlan
    /\ aiPreferences.customInstructions = <<>>
    /\ Contains(PostedPrompt, ConciseClause)

\* ------------------------------------------------------ later store claims
\* C13: addPatient with an empty or all-white-space name leaves the patient
\* list, the stored documents, the new-patient form and the selected patient
\* as they were (and the status too: the message is an alert).
C13_EmptyNameRejected ==
    [][ (Trim(newPatient.name) = <<>> /\ addPatient) =>
            UNCHANGED << patients, storage, newPatient, showAddPatient,
                         selectedPatient, status >> ]_vars

\* addPatient has just rejected a name of white space, with a patient in the
\* list and selected.
C13_Witness ==
    /\ lastCall = "addPatient:rejected"
    /\ newPatient.name = << Space >>
    /\ Len(patients) = 1
    /\ selectedPatient # <<>>

\* ------------------------------------------------- later recording claims
\* C14: startRecording with the speech key or the speech region missing
\* requests no microphone permission, creates no recognizer, leaves
\* isRecording and the engine handle as they were, and sets the 'configure
\* Azure Speech settings' status.
C14_StartWithoutCredentials ==
    [][ ((apiSettings.speechKey = <<>> \/ apiSettings.speechRegion = <<>>)
            /\ startRecording) =>
            /\ UNCHANGED << isRecording, recognizerRef, micPending, recognizers,
                            micRequests >>
            /\ status' = StConfigureSpeech ]_vars

\* startRecording has just refused for want of the key, the handle still
\* holding the recognizer of an earlier start.
C14_Witness ==
    /\ lastCall = "startRecording:unconfigured"
    /\ apiSettings.speechKey = <<>>
    /\ recognizerRef # 0
    /\ ~isRecording
    /\ status = StConfigureSpeech

\* ---------------------------------------------------- persistence claims
\* What the store holds for a key, as the mount effect would load it.
Persisted(key, default) == Loaded(storage[key], default)

\* C15: in every state of a run in which no access to the store has failed,
\* the in-memory patients, preferences and settings are the persisted ones.
C15_WriteThrough ==
    warnings = 0 =>
        /\ patients = Persisted(PatientsKey, <<>>)
        /\ aiPreferences = Persisted(PreferencesKey, InitAiPreferences)
        /\ apiSettings = Persisted(SettingsKey, InitApiSettings)

\* C16: an operation whose write to the store fails, and a load whose read
\* fails, still does everything else it does (the in-memory document is the
\* new one, the form is closed, the status is set), and in no run is the
\* warning given more than once.
C16_StorageFailureDegrades ==
    [][ /\ lastCall' = "addPatient:unsaved" =>
            /\ patients' = Append(patients, NewPatientRecord)
            /\ newPatient' = InitNewPatient
            /\ ~showAddPatient'
            /\ status' = StPatientAdded
        /\ lastCall' = "saveVisitToPatient:unsaved" =>
            /\ patients' = WithVisit(patients, selectedPatient[1].id, NewVisit)
            /\ selectedPatient' = Found(patients', selectedPatient[1].id)
            /\ status' = StVisitSaved
        /\ lastCall' = "savePreferences:unsaved" =>
            /\ aiPreferences' = aiPreferences
            /\ ~showPreferences'
        /\ lastCall' = "saveApiSettings:unsaved" =>
            /\ apiSettings' = apiSettings
            /\ ~showSettings'
            /\ status' = StSettingsSaved
        /\ lastCall' = "restart:unreadable" =>
            /\ patients' = <<>>
            /\ aiPreferences' = InitAiPreferences
            /\ apiSettings' = InitApiSettings
        /\ warnings' <= 1
      ]_vars

\* ------------------------------------------------ later generation claims
\* C17: a failed request sets the authentication message for 401, the
\* deployment message for 404, the rate-limit message for 429 and the generic
\* message for any other failure, four different messages; afterwards
\* isProcessing is FALSE, and nothing is posted again.
C17_FailureClassified ==
    [][ \A i \in PostIds, code \in HttpFailures :
          CompletionFailed(i, code) =>
            /\ code = "401" => status' = StAuthFailed
            /\ code = "404" => status' = StDeploymentNotFound
            /\ code = "429" => status' = StRateLimited
            /\ code = "other" => status' = StGenerateFailed
            /\ Cardinality({ StAuthFailed, StDeploymentNotFound, StRateLimited,
                             StGenerateFailed }) = 4
            /\ ~isProcessing'
            /\ posts' = posts
            /\ Len(requests') = Len(requests) - 1 ]_vars

\* A request has just failed with the rate-limit message.
C17_Witness ==
    /\ lastCall = "completion:failed"
    /\ status = StRateLimited
    /\ ~isProcessing
    /\ requests = <<>>
    /\ posts = 1

\* ----------------------------------------------------------- identity
\* C18: no two records of the patients list have the same id, and no two
\* visits of one patient have the same id.
C18_UniqueIds ==
    /\ \A i, j \in 1..Len(patients) :
           patients[i].id = patients[j].id => i = j
    /\ \A i \in 1..Len(patients) :
           \A k, l \in 1..Len(patients[i].visits) :
               patients[i].visits[k].id = patients[i].visits[l].id => k = l

\* ------------------------------------------------------------- clearing
\* A session with notes, patients added and selected, visits saved, the
\* session cleared and recorded again, and the page reloaded.
NextSelect ==
    \/ NextSession
    \/ (SessionReady /\ ToggleAddPatient)
    \/ (SessionReady /\ SetNewPatient("name", << "a", Quote >>))
    \/ (SessionReady /\ AddPatientClick)
    \/ \E value \in 0..MaxClock : SessionReady /\ SelectChange(value)
    \/ (SessionReady /\ SaveVisitClick)
    \/ (SessionReady /\ clearCurrentSession)
    \/ \E readable \in BOOLEAN : SessionReady /\ Restart(readable)

SpecSelect == Init /\ [][NextSelect]_vars

\* The steps that may change the selected patient: a choice in the patient
\* select, and saveVisitToPatient.
SelectOrSaveVisit ==
    lastCall' \in { "selectPatient", "selectPatient:undefined",
                    "saveVisitToPatient:saved", "saveVisitToPatient:unsaved" }

\* clearCurrentSession empties the transcript and the notes and leaves the
\* selected patient, the patients, the preferences, the settings, isRecording,
\* isProcessing and the engine handle as they were.
ClearFrame ==
    clearCurrentSession =>
        /\ transcript' = <<>>
        /\ medicalNotes' = <<>>
        /\ UNCHANGED << selectedPatient, patients, aiPreferences, apiSettings,
                        isRecording, isProcessing, recognizerRef >>

\* C19 as stated: the frame of clearCurrentSession, and the selected patient
\* changes only in a select or a save-visit step.
C19_ClearKeepsSelection ==
    [][ /\ ClearFrame
        /\ selectedPatient' # selectedPatient => SelectOrSaveVisit ]_vars

\* C19 amended: the same, a reload of the page being the third step that
\* changes (clears) the selected patient.
C19_ClearKeepsSelectionInRun ==
    [][ /\ ClearFrame
        /\ selectedPatient' # selectedPatient =>
               \/ SelectOrSaveVisit
               \/ lastCall' \in { "restart:loaded", "restart:unreadable" } ]_vars

\* The session was just cleared while recording, with a patient selected.
C19_Witness ==
    /\ lastCall = "clearCurrentSession"
    /\ selectedPatient # <<>>
    /\ transcript = <<>>
    /\ medicalNotes = <<>>
    /\ isRecording
    /\ recognizerRef # 0

\* ------------------------------------------------------------ the handle
\* C20: a recognizer that was started and was neither asked to stop nor ended
\* by the engine, the only kind whose events append to the transcript, is the
\* one the engine handle refers to.
C20_LiveRecognizerIsHandle ==
    \A r \in 1..Len(recognizers) : Active(r) => recognizerRef = r

\* ------------------------------------------------------ stale completions
\* C21: while the recognizer in the engine handle is active isRecording is
\* TRUE, and a stop completion or a session-stopped signal of another
\* recognizer changes neither isRecording nor the status then.
C21_ActiveHandleIsRecording ==
    /\ [](HandleActive => isRecording)
    /\ [][ \A r \in RecIds :
             (/\ HandleActive
              /\ r # recognizerRef
              /\ StopSucceeded(r) \/ StopFailed(r) \/ SessionStopped(r))
             => UNCHANGED << isRecording, status >> ]_vars

\* ---------------------------------------------------------- the selection
\* C22: a selected patient is, visits included, the record of the patients
\* list with its id (the first one, which is the one find returns).
C22_SelectionIsListRecord ==
    selectedPatient # <<>> =>
        \E i \in 1..Len(patients) :
            /\ patients[i] = selectedPatient[1]
            /\ \A j \in 1..(i - 1) : patients[j].id # selectedPatient[1].id

\* A visit was just saved to the second of two patients with different ids,
\* which is the selected one and holds the visit.
C22_Witness ==
    /\ lastCall = "saveVisitToPatient:saved"
    /\ Len(patients) = 2
    /\ patients[1].id # patients[2].id
    /\ selectedPatient # <<>>
    /\ selectedPatient[1].id = patients[2].id
    /\ Len(selectedPatient[1].visits) = 1

\* ------------------------------------------------- the visit and its notes
\* The same with speech recognized, and the session cleared, while a request
\* is in flight.
NextVisit ==
    \/ NextSelect
    \/ \E r \in RecIds : InSession /\ requests # <<>> /\ Recognizing(r, <<"a">>)
    \/ (InSession /\ requests # <<>> /\ clearCurrentSession)

SpecVisit == Init /\ [][NextVisit]_vars

\* C23: the transcript saveVisitToPatient stores in a visit is the transcript
\* that was sent in the request whose answer it stores as the visit's notes.
C23_VisitTranscriptMatchesNotes ==
    [][ SaveVisitStep => NewVisit.transcript = notesRequest ]_vars

\* C24: the completion of a request that was in flight when the session was
\* cleared leaves medicalNotes and the status as they are.
C24_ClearedRequestIsDropped ==
    [][ \A i \in PostIds :
          (/\ i <= Len(requests)
           /\ requests[i].cleared
           /\ \/ \E content \in NoteTexts : CompletionSucceeded(i, content)
              \/ \E code \in HttpFailures : CompletionFailed(i, code))
          => UNCHANGED << medicalNotes, status >> ]_vars

====
